---- MODULE Spec2Model ----
(***************************************************************************)
(* Model of the dobble repository: the projective-plane deck generators of *)
(* src/dobble-generator/app.js and src/dobble/app.js, the seeded PRNG and  *)
(* Fisher-Yates shuffle of src/dobble-generator/app.js, and the generate   *)
(* handlers of the two front-ends.                                         *)
(***************************************************************************)
EXTENDS Integers, Sequences, FiniteSets, TLC

(***************************************************************************)
(* Bounds of the model.                                                    *)
(***************************************************************************)
\* orders handed to the generators range over -NegOrders..MaxOrder
NegOrders == 3
MaxOrder == 7
\* arrays handed to shuffleInPlace have at most MaxLen elements
MaxLen == 3
\* the draws of an arbitrary rng are the multiples of 1/DrawSteps below 1
DrawSteps == 4
\* seeded shuffles run on the key arrays [0 .. len-1], len <= MaxKeys
MaxKeys == 4
\* the order select of src/dobble offers the orders 2..MaxSelectOrder
MaxSelectOrder == 4
\* src/dobble holds at most MaxAssets symbol assets
MaxAssets == 8
\* src/dobble-generator: symbolsPerCard holds 2..MaxSymbolsPerCard
MaxSymbolsPerCard == 5
\* src/dobble-generator: the user types a card count of up to MaxCardsCount
MaxCardsCount == 8
\* src/dobble-generator: at most MaxFiles images are loaded or texts typed
MaxFiles == 8

\* src/unnamed: the board has NumHoles holes
NumHoles == 3
\* src/unnamed: clicks score up to MaxScore
MaxScore == 3
\* src/unnamed/part_000 line 3
INITIAL_DURATION_SECONDS == 30

----------------------------------------------------------------------------
(***************************************************************************)
(* State.                                                                  *)
(***************************************************************************)
VARIABLES
    page,        \* the front-end loaded in the document, "none" for no page
    designArg,   \* argument n of the last generateDobbleDesignByPrime call
    designRet,   \* its outcome: Null before any call, thrown or returned
    deckArg,     \* argument q of the last generateDobbleDeckIndices call
    deckRet,     \* its outcome: Null before any call, or returned
    deckLog,     \* what that call wrote to the console
    arrayObj,    \* content of the array object handed to shuffleInPlace
    passed,      \* its content when the last shuffleInPlace call began
    returned,    \* content of the object that call returned
    visits,      \* the loop iterations of that call: position, rng call, j
    rngA,        \* state a of the mulberry32 closure made last, after its use
    firstCall,   \* the first seeded shuffle: its input, seed and output
    laterCall,   \* the latest seeded shuffle after the first one
    stateQ,      \* src/dobble: state.q
    assetCount,  \* src/dobble: state.assets.length
    autoPad,     \* src/dobble: autoPadToggle.checked
    generated,   \* src/dobble: state.generated
    previewGrid, \* src/dobble: the card tiles of previewGrid
    alerted,     \* src/dobble: the last generateDeck run ended in its alert
    deckSymbols, \* src/dobble: symbolCanvases when the last rendering began
    symbolsPerCard,       \* src/dobble-generator: dom.symbolsPerCard.value
    countRead,            \* dom.cardsCount.value as the run that stored
                          \* lastGenerated read it at line 518
    genPc,                \* where the click handler of generateBtn stands
    genLocals,            \* its locals design and wantCards while it awaits,
                          \* and the card count it read
    generateBtnDisabled,  \* dom.generateBtn.disabled
    printBtnDisabled,     \* dom.printBtn.disabled
    genPreview,           \* the card canvases of dom.previewGrid
    genAlert,             \* the alert of the last run of the handler, if any
    lastGenerated,        \* the variable lastGenerated
    isPlaying,            \* src/unnamed: the variables of lines 19-26;
    isPaused,             \* a timer id is a positive number, null is 0;
    score,                \* a hole is known by its index, null is -1
    timeLeft,
    countdownIntervalId,
    currentHideTimeoutId,
    currentHole,
    lastHoleIndex,
    intervals,            \* ids of the intervals set and not cleared
    hideTimeouts,         \* the timeouts set, not cleared and not yet fired
    up,                   \* the holes whose classList holds 'up'
    startDisabled,        \* startButton.disabled
    pauseDisabled         \* pauseButton.disabled

vars == <<page, designArg, designRet, deckArg, deckRet, deckLog,
          arrayObj, passed, returned, visits, rngA, firstCall, laterCall,
          stateQ, assetCount, autoPad, generated, previewGrid, alerted,
          deckSymbols, symbolsPerCard, countRead, genPc,
          genLocals, generateBtnDisabled, printBtnDisabled, genPreview,
          genAlert, lastGenerated,
          isPlaying, isPaused, score, timeLeft, countdownIntervalId,
          currentHideTimeoutId, currentHole, lastHoleIndex, intervals,
          hideTimeouts, up, startDisabled, pauseDisabled>>

designVars == <<designArg, designRet>>
deckVars == <<deckArg, deckRet, deckLog>>
shuffleVars == <<arrayObj, passed, returned, visits>>
seededVars == <<rngA, firstCall, laterCall>>
dobbleVars == <<stateQ, assetCount, autoPad, generated, previewGrid, alerted,
                deckSymbols>>
genInputs == <<symbolsPerCard>>
genVars == <<genInputs, genPc, genLocals, generateBtnDisabled,
             printBtnDisabled, genPreview, genAlert, countRead, lastGenerated>>
gameVars == <<isPlaying, isPaused, score, timeLeft, countdownIntervalId,
              currentHideTimeoutId, currentHole, lastHoleIndex, intervals,
              hideTimeouts, up, startDisabled, pauseDisabled>>

----------------------------------------------------------------------------
(***************************************************************************)
(* Generic helpers on sequences.                                           *)
(***************************************************************************)
Range(s) == {s[i] : i \in 1..Len(s)}

\* JavaScript null, and a value v held where null may be held
Null == [tag |-> "null"]
Some(v) == [tag |-> "some", value |-> v]

----------------------------------------------------------------------------
(***************************************************************************)
(* src/dobble-generator/app.js: utilities.                                 *)
(***************************************************************************)
RECURSIVE isPrimeLoopOffByOne(_, _)
isPrimeLoopOffByOne(n, i) ==
    IF i * i < n
    THEN IF n % i = 0 THEN FALSE ELSE isPrimeLoopOffByOne(n, i + 1)
    ELSE TRUE

\* for (let i = 2; i * i <= n; i++) if (n % i === 0) return false; return true
RECURSIVE isPrimeLoop(_, _)
isPrimeLoop(n, i) ==
    IF i * i <= n
    THEN IF n % i = 0 THEN FALSE ELSE isPrimeLoop(n, i + 1)
    ELSE TRUE

isPrime(n) == IF n < 2 THEN FALSE ELSE isPrimeLoop(n, 2)

Max2(a, b) == IF a >= b THEN a ELSE b
Min2(a, b) == IF a <= b THEN a ELSE b

clamp(value, min, max) == Max2(min, Min2(max, value))

----------------------------------------------------------------------------
(***************************************************************************)
(* 32-bit words of the JavaScript bit operators.  A word is <<hi, lo>>, two *)
(* 16-bit limbs, standing for hi * 2^16 + lo: the unsigned reading of the  *)
(* 32 bits.  ToInt32 and ToUint32 keep the bits, so ^, |, <<, >>>, imul    *)
(* and + reduced by a later bit operator are all computed modulo 2^32.     *)
(***************************************************************************)
Limb == 2^16
Byte == 2^8

Word(hi, lo) == <<hi, lo>>

\* TLC hands operator arguments over unevaluated; a loop tests Evaluated(v)
\* on its accumulator so that the pending iterations do not pile up.
Evaluated(v) == v = v

\* the word of a number 0 <= v < 2^31
ToWord(v) == <<v \div Limb, v % Limb>>

RECURSIVE xor16(_, _)
xor16(a, b) ==
    IF a = 0 THEN b
    ELSE IF b = 0 THEN a
    ELSE (((a % 2) + (b % 2)) % 2) + 2 * xor16(a \div 2, b \div 2)

RECURSIVE or16(_, _)
or16(a, b) ==
    IF a = 0 THEN b
    ELSE IF b = 0 THEN a
    ELSE Max2(a % 2, b % 2) + 2 * or16(a \div 2, b \div 2)

\* x ^ y
Xor(x, y) == <<xor16(x[1], y[1]), xor16(x[2], y[2])>>

\* x | y
Or(x, y) == <<or16(x[1], y[1]), or16(x[2], y[2])>>

\* x + y, reduced modulo 2^32
Add(x, y) ==
    LET lo == x[2] + y[2]
    IN  <<(x[1] + y[1] + (lo \div Limb)) % Limb, lo % Limb>>

\* x >>> s, 0 < s < 32
Shr(x, s) ==
    IF s >= 16 THEN <<0, x[1] \div 2^(s - 16)>>
    ELSE <<x[1] \div 2^s, (x[2] \div 2^s) + (x[1] % 2^s) * 2^(16 - s)>>

\* x << s, 0 < s < 16
Shl(x, s) ==
    <<((x[1] % 2^(16 - s)) * 2^s) + (x[2] \div 2^(16 - s)),
      (x[2] % 2^(16 - s)) * 2^s>>

\* Math.imul(x, y): the low 32 bits of the product, by bytes
Imul(x, y) ==
    LET x0 == x[2] % Byte  x1 == x[2] \div Byte
        x2 == x[1] % Byte  x3 == x[1] \div Byte
        y0 == y[2] % Byte  y1 == y[2] \div Byte
        y2 == y[1] % Byte  y3 == y[1] \div Byte
        t0 == x0 * y0
        t1 == x0 * y1 + x1 * y0 + (t0 \div Byte)
        t2 == x0 * y2 + x1 * y1 + x2 * y0 + (t1 \div Byte)
        t3 == x0 * y3 + x1 * y2 + x2 * y1 + x3 * y0 + (t2 \div Byte)
    IN  <<(t3 % Byte) * Byte + (t2 % Byte), (t1 % Byte) * Byte + (t0 % Byte)>>

----------------------------------------------------------------------------
(***************************************************************************)
(* src/dobble-generator/app.js: seededRandom (xmur3 hash, mulberry32).     *)
(* A string is the sequence of its char codes.                             *)
(***************************************************************************)
\* 'dobble', the default of String(seed || 'dobble')
DefaultSeed == <<100, 111, 98, 98, 108, 101>>

\* lines 25-26, one character of the string
RECURSIVE xmur3Loop(_, _, _)
xmur3Loop(h, str, i) ==
    IF i > Len(str) THEN h
    ELSE LET h1 == Imul(Xor(h, ToWord(str[i])), Word(52382, 11601)) \* 3432918353
             h2 == Or(Shl(h1, 13), Shr(h1, 19))
         IN  IF Evaluated(h2) THEN xmur3Loop(h2, str, i + 1) ELSE h2

\* lines 23-27: the hash state after the string is absorbed
xmur3(str) == xmur3Loop(Xor(ToWord(1779033703), ToWord(Len(str))), str, 1)

\* lines 29-32: the first value of the function xmur3 returns
xmur3First(h) ==
    LET h1 == Imul(Xor(h, Shr(h, 16)), Word(34283, 51819))   \* 2246822507
        h2 == Imul(Xor(h1, Shr(h1, 13)), Word(49842, 44597)) \* 3266489909
    IN  Xor(h2, Shr(h2, 16))

seededRandomShared(seed) ==
    IF rngA = Null
    THEN xmur3First(xmur3(IF seed = <<>> THEN DefaultSeed ELSE seed))
    ELSE rngA.value

\* lines 43-44: the state a of the mulberry32 closure seededRandom returns
seededRandom(seed) ==
    xmur3First(xmur3(IF seed = <<>> THEN DefaultSeed ELSE seed))

\* line 37: a += 0x6D2B79F5 (every later use of a is through ToInt32)
mulberryAdvance(a) == Add(a, ToWord(1831565813))

\* lines 37-40, one call of the closure on state a: the numerator u of the
\* value u / 4294967296 it returns
mulberryValue(a) ==
    LET t0 == mulberryAdvance(a)
        t1 == Imul(Xor(t0, Shr(t0, 15)), Or(t0, ToWord(1)))
        t2 == Xor(t1, Add(t1, Imul(Xor(t1, Shr(t1, 7)), Or(t1, ToWord(61)))))
    IN  Xor(t2, Shr(t2, 14))

\* the values of the first count calls of the closure started in state a
RECURSIVE mulberryDraws(_, _)
mulberryDraws(a, count) ==
    IF count <= 0 \/ ~Evaluated(a) THEN <<>>
    ELSE <<mulberryValue(a)>> \o mulberryDraws(mulberryAdvance(a), count - 1)

----------------------------------------------------------------------------
(***************************************************************************)
(* src/dobble-generator/app.js: shuffleInPlace.  A draw is the word u of   *)
(* the value u / 2^32 one rng() call returns, so 0 <= rng() < 1.           *)
(***************************************************************************)
\* Math.floor(rng() * (i + 1)) for a draw u and a small factor k = i + 1:
\* floor(u * k / 2^32); the double product is exact for k < 2^21
floorScaled(u, k) == (u[1] * k + (u[2] * k) \div Limb) \div Limb

randomIndexWholeArray(draws, len, i) == floorScaled(draws[len - i], len)

\* line 49: const j = Math.floor(rng() * (i + 1)), on the (len - i)-th call
\* of rng
randomIndex(draws, len, i) == floorScaled(draws[len - i], i + 1)

swapOverwrite(array, i, j) == [array EXCEPT ![i + 1] = array[j + 1]]

\* line 50: [array[i], array[j]] = [array[j], array[i]], i and j 0-based
swap(array, i, j) ==
    [array EXCEPT ![i + 1] = array[j + 1], ![j + 1] = array[i + 1]]

\* lines 48-51 from position i down to 1; the call for position i is the
\* (Len(array) - i)-th call of rng
RECURSIVE shuffleLoop(_, _, _)
shuffleLoop(array, draws, i) ==
    IF i > 0 /\ Evaluated(array)
    THEN LET j == randomIndex(draws, Len(array), i)
         IN  shuffleLoop(swap(array, i, j), draws, i - 1)
    ELSE array

\* the iterations of the loop of lines 48-51 on an array of length len, from
\* position i on: the position, the number of its rng call and the j drawn
RECURSIVE shuffleVisits(_, _, _)
shuffleVisits(len, draws, i) ==
    IF i > 0
    THEN <<[i |-> i, call |-> len - i, j |-> randomIndex(draws, len, i)]>>
             \o shuffleVisits(len, draws, i - 1)
    ELSE <<>>

\* number of rng() calls of one shuffle of an array of length len
drawCount(len) == IF len > 1 THEN len - 1 ELSE 0

shuffleOnCopy(array, draws) ==
    [array |-> array, ret |-> shuffleLoop(array, draws, Len(array) - 1)]

\* The effect of shuffleInPlace(array, rng): array is the content of the
\* argument object after the call, ret the content of the returned object
\* (line 52 returns the argument itself).
shuffleInPlace(array, draws) ==
    LET result == shuffleLoop(array, draws, Len(array) - 1)
    IN  [array |-> result, ret |-> result]

----------------------------------------------------------------------------
(***************************************************************************)
(* src/dobble-generator/app.js: generateDobbleDesignByPrime.               *)
(* Cards are sequences of symbol ids in push order; the list of cards is a *)
(* sequence in push order.  Sequences are 1-based, the loop counters keep  *)
(* the 0-based values of the code.                                         *)
(***************************************************************************)
coordToId(x, y, n) == x * n + y

slopeCardNoIntercept(m, b, n) ==
    [p \in 1..(n + 1) |->
        IF p <= n THEN coordToId(p - 1, (m * (p - 1)) % n, n)
        ELSE n * n + m]

\* inner loop of lines 68-74: the card of the line y = m x + b
slopeCard(m, b, n) ==
    [p \in 1..(n + 1) |->
        IF p <= n THEN coordToId(p - 1, (m * (p - 1) + b) % n, n)
        ELSE n * n + m]

\* the two nested loops of lines 66-76, in push order (m outer, b inner)
slopeCards(n) ==
    [c \in 1..(n * n) |-> slopeCard((c - 1) \div n, (c - 1) % n, n)]

verticalCardFixedY(a, n) ==
    [p \in 1..(n + 1) |->
        IF p <= n THEN coordToId(p - 1, a, n) ELSE n * n + n]

\* lines 79-84: the card of the vertical line x = a
verticalCard(a, n) ==
    [p \in 1..(n + 1) |->
        IF p <= n THEN coordToId(a, p - 1, n) ELSE n * n + n]

verticalCardsOneShort(n) == [c \in 1..(n - 1) |-> verticalCard(c - 1, n)]

\* lines 78-85: for (let a = 0; a < n; a++)
verticalCards(n) == [c \in 1..n |-> verticalCard(c - 1, n)]

infCardShort(n) == [p \in 1..n |-> n * n + (p - 1)]

\* lines 87-90: for (let m = 0; m <= n; m++) infCard.push(n * n + m)
infCard(n) == [p \in 1..(n + 1) |-> n * n + (p - 1)]

\* The value of a call: a thrown Error (assert, lines 4-6) or the returned
\* object { v, k, n, cards }.
Thrown(msg) == [tag |-> "thrown", message |-> msg]

generateDobbleDesignByPrime(n) ==
    IF ~isPrime(n) THEN Thrown("n must be prime")
    ELSE LET v == n * n + n + 1
             k == n + 1
             cards == slopeCards(n) \o verticalCards(n) \o <<infCard(n)>>
         IN  IF Len(cards) # v THEN Thrown("wrong card count")
             ELSE IF \E c \in 1..Len(cards) : Len(cards[c]) # k
                  THEN Thrown("wrong card size")
                  ELSE [tag |-> "returned", v |-> v, k |-> k, n |-> n,
                        cards |-> cards]

----------------------------------------------------------------------------
(***************************************************************************)
(* src/dobble/app.js: generateDobbleDeckIndices and intersectionCount.     *)
(***************************************************************************)
pointIndex(x, y, q) == x * q + y
emIndex(m, q) == q * q + m
eIndex(q) == q * q + q

\* number of iterations of a loop for (let i = 0; i < q; i++)
Iter(q) == IF q > 0 THEN q ELSE 0

\* lines 153-159
deckSlopeCard(m, b, q) ==
    [p \in 1..(q + 1) |->
        IF p <= q THEN pointIndex(p - 1, (m * (p - 1) + b) % q, q)
        ELSE emIndex(m, q)]

\* lines 151-161
deckSlopeCards(q) ==
    [c \in 1..(Iter(q) * Iter(q)) |->
        deckSlopeCard((c - 1) \div q, (c - 1) % q, q)]

\* lines 164-169: "fixed y", the inner loop runs over x
deckFixedYCard(y, q) ==
    [p \in 1..(q + 1) |->
        IF p <= q THEN pointIndex(p - 1, y, q) ELSE eIndex(q)]

deckFixedYCards(q) == [c \in 1..Iter(q) |-> deckFixedYCard(c - 1, q)]

\* lines 172-177
deckInfCard(q) ==
    [p \in 1..(Iter(q) + 1) |->
        IF p <= Iter(q) THEN emIndex(p - 1, q) ELSE eIndex(q)]

\* lines 195-200: the elements of a (with repetition) that are in Set(b)
intersectionCount(a, b) ==
    Cardinality({p \in 1..Len(a) : a[p] \in Range(b)})

\* the console.warn('Intersection != 1', { i, j, inter }) calls of lines 183-190
intersectionWarnings(cards, symbolCount) ==
    IF symbolCount <= 133
    THEN LET idx == 0..(Len(cards) - 1)
             bad == {p \in idx \X idx :
                        /\ p[1] < p[2]
                        /\ intersectionCount(cards[p[1] + 1], cards[p[2] + 1]) # 1}
         IN  {[i |-> p[1], j |-> p[2],
               inter |-> intersectionCount(cards[p[1] + 1], cards[p[2] + 1])] :
                 p \in bad}
    ELSE {}

\* the console.warn('Card size mismatch', ...) of lines 180-182
sizeMismatchWarning(cards, perCard) ==
    \E c \in 1..Len(cards) : Len(cards[c]) # perCard

deckCards(q) == deckSlopeCards(q) \o deckFixedYCards(q) \o <<deckInfCard(q)>>

\* the returned object { cards, symbolCount, symbolsPerCard }; the function
\* has no check on q and never throws
generateDobbleDeckIndices(q) ==
    [tag |-> "returned", cards |-> deckCards(q),
     symbolCount |-> q * q + q + 1, symbolsPerCard |-> q + 1]

\* what one call writes to the console
deckConsole(q) ==
    [sizeMismatch |-> sizeMismatchWarning(deckCards(q), q + 1),
     intersections |-> intersectionWarnings(deckCards(q), q * q + q + 1)]

----------------------------------------------------------------------------
(***************************************************************************)
(* SpecDesign: the two generators applied to every order of the range.     *)
(***************************************************************************)
Orders == (0 - NegOrders)..MaxOrder

DesignIdle ==
    /\ designArg = 0
    /\ designRet = Null
    /\ deckArg = 0
    /\ deckRet = Null
    /\ deckLog = Null

\* src/unnamed/part_000 lines 19-26 at load: nothing is scheduled, no hole
\* is up
GameIdle ==
    /\ isPlaying = FALSE
    /\ isPaused = FALSE
    /\ score = 0
    /\ timeLeft = INITIAL_DURATION_SECONDS
    /\ countdownIntervalId = 0
    /\ currentHideTimeoutId = 0
    /\ currentHole = 0 - 1
    /\ lastHoleIndex = 0 - 1
    /\ intervals = {}
    /\ hideTimeouts = {}
    /\ up = {}
    /\ startDisabled = FALSE
    /\ pauseDisabled = TRUE

ShuffleIdle ==
    /\ arrayObj = <<>>
    /\ passed = Null
    /\ returned = Null
    /\ visits = <<>>

SeededIdle ==
    /\ rngA = Null
    /\ firstCall = Null
    /\ laterCall = Null

\* src/dobble/app.js lines 203-208: the state object at load
DobbleIdle ==
    /\ stateQ = 5
    /\ assetCount = 0
    /\ autoPad = FALSE
    /\ generated = Null
    /\ previewGrid = <<>>
    /\ alerted = FALSE
    /\ deckSymbols = Null

\* src/dobble-generator/app.js before any input, lastGenerated of line 502
GeneratorIdle ==
    /\ symbolsPerCard = 3
    /\ countRead = Null
    /\ genPc = "idle"
    /\ genLocals = Null
    /\ generateBtnDisabled = FALSE
    /\ printBtnDisabled = TRUE
    /\ genPreview = <<>>
    /\ genAlert = Null
    /\ lastGenerated = Null

InitDesign ==
    /\ page = "none"
    /\ DesignIdle /\ ShuffleIdle /\ SeededIdle /\ DobbleIdle /\ GeneratorIdle
    /\ GameIdle

CallDesignByPrime(n) ==
    /\ designArg' = n
    /\ designRet' = generateDobbleDesignByPrime(n)
    /\ UNCHANGED <<deckVars, shuffleVars, seededVars, dobbleVars, genVars>>
    /\ UNCHANGED <<page, gameVars>>

CallDeckIndices(q) ==
    /\ deckArg' = q
    /\ deckRet' = generateDobbleDeckIndices(q)
    /\ deckLog' = deckConsole(q)
    /\ UNCHANGED <<designVars, shuffleVars, seededVars, dobbleVars, genVars>>
    /\ UNCHANGED <<page, gameVars>>

NextDesign ==
    \/ \E n \in Orders : CallDesignByPrime(n)
    \/ \E q \in Orders : CallDeckIndices(q)

SpecDesign == InitDesign /\ [][NextDesign]_vars

----------------------------------------------------------------------------
(***************************************************************************)
(* SpecShuffle: shuffleInPlace on every array of at most MaxLen elements,  *)
(* driven by every sequence of draws of an arbitrary rng.                  *)
(***************************************************************************)
Elems == {"a", "b", "c"}

Arrays == UNION {[1..len -> Elems] : len \in 0..MaxLen}

\* the draws k / DrawSteps, and the largest double below 1 the rng returns
DrawValues ==
    {Word(k * (Limb \div DrawSteps), 0) : k \in 0..(DrawSteps - 1)}
        \cup {Word(Limb - 1, Limb - 1)}

InitShuffle ==
    /\ arrayObj \in Arrays
    /\ passed = Null
    /\ returned = Null
    /\ visits = <<>>
    /\ page = "none"
    /\ DesignIdle /\ SeededIdle /\ DobbleIdle /\ GeneratorIdle /\ GameIdle

\* one call shuffleInPlace(arrayObj, rng) on the array object of the state
Shuffle(draws) ==
    /\ passed' = Some(arrayObj)
    /\ LET call == shuffleInPlace(arrayObj, draws)
       IN  arrayObj' = call.array /\ returned' = Some(call.ret)
    /\ visits' = shuffleVisits(Len(arrayObj), draws, Len(arrayObj) - 1)
    /\ UNCHANGED <<designVars, deckVars, seededVars, dobbleVars, genVars>>
    /\ UNCHANGED <<page, gameVars>>

NextShuffle ==
    \E draws \in [1..drawCount(Len(arrayObj)) -> DrawValues] : Shuffle(draws)

SpecShuffle == InitShuffle /\ [][NextShuffle]_vars

----------------------------------------------------------------------------
(***************************************************************************)
(* SpecSeeded: shuffles driven by seededRandom(seed), as at lines 536 and  *)
(* 553 of src/dobble-generator/app.js: the rng is made from the seed and   *)
(* the shuffle runs on a fresh key array [...cards.keys()].                *)
(***************************************************************************)
Keys(len) == [p \in 1..len |-> p - 1]

\* the seeds '', '1', '42' and 'dobble'
Seeds == {<<>>, <<49>>, <<52, 50>>, DefaultSeed}

InitSeeded ==
    /\ page = "none"
    /\ DesignIdle /\ ShuffleIdle /\ SeededIdle /\ DobbleIdle /\ GeneratorIdle
    /\ GameIdle

\* the state a after count calls of the closure
RECURSIVE mulberryAfter(_, _)
mulberryAfter(a, count) ==
    IF count <= 0 \/ ~Evaluated(a) THEN a
    ELSE mulberryAfter(mulberryAdvance(a), count - 1)

SeededShuffle(len, seed) ==
    LET a0 == seededRandom(seed)
        draws == mulberryDraws(a0, drawCount(len))
        done == shuffleInPlace(Keys(len), draws)
        call == [input |-> Keys(len), seed |-> seed, output |-> done.ret]
    IN  /\ passed' = Some(Keys(len))
        /\ arrayObj' = done.array
        /\ returned' = Some(done.ret)
        /\ visits' = shuffleVisits(len, draws, len - 1)
        /\ rngA' = Some(mulberryAfter(a0, drawCount(len)))
        /\ firstCall' = IF firstCall = Null THEN call ELSE firstCall
        /\ laterCall' = IF firstCall = Null THEN Null ELSE call
        /\ UNCHANGED <<designVars, deckVars, dobbleVars, genVars>>
    /\ UNCHANGED <<page, gameVars>>

NextSeeded ==
    \E len \in 0..MaxKeys : \E seed \in Seeds : SeededShuffle(len, seed)

SpecSeeded == InitSeeded /\ [][NextSeeded]_vars

----------------------------------------------------------------------------
(***************************************************************************)
(* SpecDobble: the front-end of src/dobble/app.js.  An asset is known by   *)
(* its position in state.assets; a canvas is known by where it came from:  *)
(* the asset at a position, or the pad text with a number.  A rendered     *)
(* card is the sequence of the symbol canvases drawn on it.                *)
(***************************************************************************)
\* the orders the select can hold; its option list is markup, and line 227
\* takes whatever integer it holds
OrderOptions == 2..MaxSelectOrder

\* line 318: state.assets.map(a => a.canvas)
assetCanvases(count) == [i \in 1..count |-> [kind |-> "asset", label |-> i]]

\* lines 320-324: need pad canvases, each labelled with the length of the list
\* just before it is pushed, plus one
padCanvases(count, need) ==
    [i \in 1..need |-> [kind |-> "pad", label |-> count + i]]

\* lines 318-325
symbolCanvasesOf(count, symbolCount, pad) ==
    IF count < symbolCount /\ pad
    THEN assetCanvases(count) \o padCanvases(count, symbolCount - count)
    ELSE assetCanvases(count)

\* lines 359-371: the drawImage calls of one card
renderCard(card, symbolCanvases) ==
    [k \in 1..Len(card) |->
        symbolCanvases[(card[k] % Len(symbolCanvases)) + 1]]

InitDobble ==
    /\ stateQ = 5
    /\ assetCount = 0
    /\ autoPad \in BOOLEAN
    /\ generated = Null
    /\ previewGrid = <<>>
    /\ alerted = FALSE
    /\ deckSymbols = Null
    /\ page = "dobble"
    /\ DesignIdle /\ ShuffleIdle /\ SeededIdle /\ GeneratorIdle /\ GameIdle

dobbleRest == <<page, designVars, shuffleVars, seededVars, genVars, gameVars>>

\* lines 226-229
OrderChange(q) ==
    /\ stateQ' = q
    /\ UNCHANGED <<assetCount, autoPad, generated, previewGrid, alerted, deckSymbols>>
    /\ UNCHANGED <<dobbleRest, deckVars>>

\* lines 277-281, reached from lines 244 and 258: one asset is pushed
AddAsset ==
    /\ assetCount < MaxAssets
    /\ assetCount' = assetCount + 1
    /\ UNCHANGED <<stateQ, autoPad, generated, previewGrid, alerted, deckSymbols>>
    /\ UNCHANGED <<dobbleRest, deckVars>>

\* lines 283-286
RemoveAsset ==
    /\ assetCount > 0
    /\ assetCount' = assetCount - 1
    /\ UNCHANGED <<stateQ, autoPad, generated, previewGrid, alerted, deckSymbols>>
    /\ UNCHANGED <<dobbleRest, deckVars>>

\* lines 263-266
ClearAll ==
    /\ assetCount' = 0
    /\ UNCHANGED <<stateQ, autoPad, generated, previewGrid, alerted, deckSymbols>>
    /\ UNCHANGED <<dobbleRest, deckVars>>

\* the user ticks or unticks autoPadToggle (read at line 319)
ToggleAutoPad ==
    /\ autoPad' = ~autoPad
    /\ UNCHANGED <<stateQ, assetCount, generated, previewGrid, alerted, deckSymbols>>
    /\ UNCHANGED <<dobbleRest, deckVars>>

\* generateDobbleDeckIndices and its console output for the orders of the
\* select and the order 5 of line 206, computed once
deckOnce ==
    [q \in OrderOptions \cup {5} |->
        [deck |-> generateDobbleDeckIndices(q), log |-> deckConsole(q)]]

\* lines 313-386, the whole of generateDeck (it awaits nothing)
GenerateDeck ==
    LET q == stateQ
        deck == deckOnce[q].deck
        padded == symbolCanvasesOf(assetCount, deck.symbolCount, autoPad)
        symbolCanvases == SubSeq(padded, 1, deck.symbolCount)
        deckCanvases ==
            [ci \in 1..Len(deck.cards) |->
                renderCard(deck.cards[ci], symbolCanvases)]
    IN  /\ deckArg' = q
        /\ deckRet' = deck
        /\ deckLog' = deckOnce[q].log
        /\ IF Len(padded) < deck.symbolCount
           THEN /\ alerted' = TRUE
                /\ UNCHANGED <<generated, previewGrid, deckSymbols>>
           ELSE /\ alerted' = FALSE
                /\ deckSymbols' = Some(symbolCanvases)
                /\ previewGrid' = deckCanvases
                /\ generated' = Some([deckCanvases |-> deckCanvases])
        /\ UNCHANGED <<stateQ, assetCount, autoPad, dobbleRest>>

NextDobble ==
    \/ \E q \in OrderOptions : OrderChange(q)
    \/ AddAsset
    \/ RemoveAsset
    \/ ClearAll
    \/ ToggleAutoPad
    \/ GenerateDeck

SpecDobble == InitDobble /\ [][NextDobble]_vars

----------------------------------------------------------------------------
(***************************************************************************)
(* SpecGenerator: the front-end of src/dobble-generator/app.js.  A card    *)
(* canvas is known by the card it was drawn for; where drawCard puts the   *)
(* symbols on the canvas is left out.  The seed field and the source radio *)
(* are read by the click handler only, so they are inputs of its steps.    *)
(***************************************************************************)
SymbolsPerCardOptions == 2..MaxSymbolsPerCard

\* dom.cardsCount.value when line 518 reads it: empty (Null), or one of the
\* integers -1, 0, 1 and MaxCardsCount.  The field is written by the user
\* and by updateMaxInfo (lines 414-422) and read by the click handler, so
\* its value is an input of the click.
CardsCountInputs == {Null} \cup {Some(c) : c \in {0 - 1, 0, 1, MaxCardsCount}}

\* dom.seed.value: '' and '42'
SeedInputs == {<<>>, <<52, 50>>}

\* String(Date.now()) of line 535: the clock string '1'
ClockSeeds == {<<49>>}

\* the seeds line 535 can yield: dom.seed.value || String(Date.now())
SeedsRead == (SeedInputs \ {<<>>}) \cup ClockSeeds

\* the value of the checked symbolSource radio; buildSymbolAssets has a
\* branch for 'images', one for 'text' and one for every other value
SourceModes == {"images", "text", "numbers"}

\* the number of images loadImagesFromFiles resolves with, and of the texts
\* parseCustomTextSymbols returns
FileCounts == {0, MaxFiles}

\* the images loaded (lines 107-120) and the texts parsed (lines 123-136),
\* known by their position
imagesOf(count) == [i \in 1..count |-> <<"image", i>>]
textsOf(count) == [i \in 1..count |-> <<"custom", i>>]

\* lines 138-142: the strings '1' .. String(count)
generateFallbackNumbers(count) == [i \in 1..count |-> <<"number", i>>]

buildSymbolAssetsNoFill(v, sourceMode, images, texts) ==
    IF sourceMode = "images"
    THEN [i \in 1..Min2(v, Len(images)) |->
             [kind |-> "image", payload |-> images[i]]]
    ELSE IF sourceMode = "text"
    THEN LET list == IF Len(texts) > 0 THEN texts
                     ELSE generateFallbackNumbers(v)
         IN  [i \in 1..Min2(v, Len(list)) |->
                 [kind |-> "text", payload |-> list[i]]]
    ELSE [i \in 1..v |-> [kind |-> "text", payload |-> <<"number", i>>]]

\* lines 152-178: position i of the sequence is the asset of the loop
\* counter i - 1; String(i + 1) of the code is the number i here
buildSymbolAssets(v, sourceMode, images, texts) ==
    IF sourceMode = "images"
    THEN [i \in 1..v |->
             IF i - 1 < Len(images)
             THEN [kind |-> "image", payload |-> images[i]]
             ELSE [kind |-> "text", payload |-> <<"number", i>>]]
    ELSE IF sourceMode = "text"
    THEN LET list == IF Len(texts) > 0 THEN texts
                     ELSE generateFallbackNumbers(v)
         IN  [i \in 1..v |->
                 [kind |-> "text",
                  payload |-> IF i <= Len(list) THEN list[i]
                              ELSE <<"number", i>>]]
    ELSE [i \in 1..v |-> [kind |-> "text", payload |-> <<"number", i>>]]

\* lines 542-550: one canvas per asset, known by the asset drawn on it
renderSymbols(assets) ==
    [i \in 1..Len(assets) |-> assets[i]]

\* lines 324-338: the base canvases drawCard draws on the canvas of one
\* card, listed in the order of the symbols of the card; undefined for a
\* symbol id with no canvas
drawCard(cardSymbols, symbolCanvases) ==
    [k \in 1..Len(cardSymbols) |->
        IF cardSymbols[k] < Len(symbolCanvases)
        THEN symbolCanvases[cardSymbols[k] + 1]
        ELSE [kind |-> "undefined", payload |-> <<"undefined", cardSymbols[k]>>]]

\* drawImage throws a TypeError on undefined
drawCardThrows(cardSymbols, symbolCanvases) ==
    \E id \in Range(cardSymbols) : id >= Len(symbolCanvases)

InitGenerator ==
    /\ symbolsPerCard \in SymbolsPerCardOptions
    /\ countRead = Null
    /\ genPc = "idle"
    /\ genLocals = Null
    /\ generateBtnDisabled = FALSE
    /\ printBtnDisabled \in BOOLEAN
    /\ genPreview = <<>>
    /\ genAlert = Null
    /\ lastGenerated = Null
    /\ page = "dobble-generator"
    /\ DesignIdle /\ ShuffleIdle /\ SeededIdle /\ DobbleIdle /\ GameIdle

genRest == <<page, deckVars, shuffleVars, seededVars, dobbleVars, gameVars>>
genOutputs == <<genPc, genLocals, generateBtnDisabled, printBtnDisabled,
                genPreview, genAlert, countRead, lastGenerated>>

\* the user picks another option of dom.symbolsPerCard; the change handler
\* (lines 424-426) rewrites the info text and dom.cardsCount.value
SetSymbolsPerCard(k) ==
    /\ symbolsPerCard' = k
    /\ UNCHANGED <<genOutputs, designVars, genRest>>

wantCardsNoFloor(count, v) ==
    IF count = Null THEN v ELSE Max2(Min2(count.value, v), 0)

\* line 518
wantCardsOf(count, v) ==
    clamp(IF count = Null THEN v ELSE count.value, 1, v)

\* lines 536 and 553: shuffleInPlace([...design.cards.keys()], rng) with
\* the rng of seededRandom(seed); buildSymbolAssets and renderSymbolToCanvas
\* in between call rng not once
shuffledKeys(len, seed) ==
    shuffleInPlace(Keys(len),
                   mulberryDraws(seededRandom(seed), drawCount(len))).ret

\* shuffledKeys for the decks and seeds of this front-end, computed once
DeckSizes ==
    {(k - 1) * (k - 1) + (k - 1) + 1 :
        k \in {o \in SymbolsPerCardOptions : isPrime(o - 1)}}

shuffledKeysOnce ==
    [len \in DeckSizes, seed \in SeedsRead |-> shuffledKeys(len, seed)]

\* generateDobbleDesignByPrime for the orders of this front-end, computed
\* once
designOnce ==
    [n \in {k - 1 : k \in SymbolsPerCardOptions} |->
        generateDobbleDesignByPrime(n)]

\* lines 553-554: the cards picked for rendering
chosenCardsOf(design, wantCards, seed) ==
    LET cardsOrder ==
            SubSeq(shuffledKeysOnce[Len(design.cards), seed], 1, wantCards)
    IN  [p \in 1..Len(cardsOrder) |-> design.cards[cardsOrder[p] + 1]]

\* lines 535-587: from the seed to the finally block, for the seed read at
\* line 535 and the images and texts of lines 527-533
FinishRun(design, count, wantCards, seed, sourceMode, images, texts) ==
    LET assets == buildSymbolAssets(design.v, sourceMode, images, texts)
        symbolCanvases == renderSymbols(assets)
        chosenCards == chosenCardsOf(design, wantCards, seed)
        cardCanvases ==
            [p \in 1..Len(chosenCards) |->
                drawCard(chosenCards[p], symbolCanvases)]
    IN  /\ IF \E p \in 1..Len(chosenCards) :
                 drawCardThrows(chosenCards[p], symbolCanvases)
           THEN /\ genAlert' = Some("draw failed")
                /\ printBtnDisabled' = TRUE
                /\ genPreview' = <<>>
                /\ UNCHANGED <<countRead, lastGenerated>>
           ELSE /\ genPreview' = cardCanvases
                /\ countRead' = Some(count)
                /\ printBtnDisabled' = FALSE
                /\ lastGenerated' =
                      Some([design |-> design, cards |-> chosenCards,
                            symbolCanvases |-> symbolCanvases,
                            cardCanvases |-> cardCanvases,
                            seed |-> seed])
                /\ genAlert' = Null
        /\ generateBtnDisabled' = FALSE
        /\ genPc' = "idle"
        /\ genLocals' = Null

AlertRunNoFinally(text) ==
    /\ genAlert' = Some(text)
    /\ printBtnDisabled' = TRUE
    /\ genPreview' = <<>>
    /\ generateBtnDisabled' = TRUE
    /\ UNCHANGED <<genPc, genLocals, countRead, lastGenerated>>

\* lines 582-587 after lines 506-508: the run ends in an alert
AlertRun(text) ==
    /\ genAlert' = Some(text)
    /\ printBtnDisabled' = TRUE
    /\ genPreview' = <<>>
    /\ generateBtnDisabled' = FALSE
    /\ UNCHANGED <<genPc, genLocals, countRead, lastGenerated>>

\* lines 504-588 up to the first await, or to the end when nothing is
\* awaited; a disabled button gets no click
GenerateClick(mode, count) ==
    /\ ~generateBtnDisabled
    /\ LET n == symbolsPerCard - 1
           design == designOnce[n]
       IN  IF ~isPrime(n)
           THEN AlertRun("not prime") /\ UNCHANGED designVars
           ELSE /\ designArg' = n
                /\ designRet' = design
                /\ IF design.tag = "thrown"
                   THEN AlertRun(design.message)
                   ELSE IF mode = "images"
                        THEN /\ genPc' = "loading"
                             /\ genLocals' =
                                   Some([design |-> design, count |-> count,
                                         wantCards |->
                                             wantCardsOf(count, design.v)])
                             /\ generateBtnDisabled' = TRUE
                             /\ printBtnDisabled' = TRUE
                             /\ genPreview' = <<>>
                             /\ UNCHANGED <<genAlert, countRead,
                                            lastGenerated>>
                        ELSE \E seed \in SeedsRead :
                             \E typed \in FileCounts :
                                 FinishRun(design, count,
                                           wantCardsOf(count, design.v),
                                           seed, mode, <<>>, textsOf(typed))
    /\ UNCHANGED <<genInputs, genRest>>

\* line 529 resumes with the loaded images, then lines 535-587
ImagesLoaded ==
    /\ genPc = "loading"
    /\ \E seed \in SeedsRead : \E loaded \in FileCounts :
           FinishRun(genLocals.value.design, genLocals.value.count,
                     genLocals.value.wantCards, seed,
                     "images", imagesOf(loaded), <<>>)
    /\ UNCHANGED <<genInputs, designVars, genRest>>

\* line 529 rejects (an image fails to load): lines 582-587
ImagesFailed ==
    /\ genPc = "loading"
    /\ genAlert' = Some("load failed")
    /\ generateBtnDisabled' = FALSE
    /\ genPc' = "idle"
    /\ genLocals' = Null
    /\ UNCHANGED <<printBtnDisabled, genPreview, countRead, lastGenerated>>
    /\ UNCHANGED <<genInputs, designVars, genRest>>

NextGenerator ==
    \/ \E k \in SymbolsPerCardOptions : SetSymbolsPerCard(k)
    \/ \E mode \in SourceModes : \E count \in CardsCountInputs :
           GenerateClick(mode, count)
    \/ ImagesLoaded
    \/ ImagesFailed

SpecGenerator == InitGenerator /\ [][NextGenerator]_vars

----------------------------------------------------------------------------
(***************************************************************************)
(* SpecFrontEnds: the document holds one of the two front-ends, and that   *)
(* front-end runs.                                                         *)
(***************************************************************************)
InitFrontEnds == InitDobble \/ InitGenerator

NextFrontEnds ==
    \/ page = "dobble" /\ NextDobble
    \/ page = "dobble-generator" /\ NextGenerator

SpecFrontEnds == InitFrontEnds /\ [][NextFrontEnds]_vars

----------------------------------------------------------------------------
(***************************************************************************)
(* src/unnamed/part_000: the clicking mini-game.  The functions of the     *)
(* file are operators on the record g of its variables, the timers it has  *)
(* pending, the 'up' classes of the holes and the two buttons; an action   *)
(* is one event handler or timer callback run to its end.                  *)
(***************************************************************************)
Holes == 0..(NumHoles - 1)

Game ==
    [isPlaying |-> isPlaying, isPaused |-> isPaused, score |-> score,
     timeLeft |-> timeLeft, countdownIntervalId |-> countdownIntervalId,
     currentHideTimeoutId |-> currentHideTimeoutId,
     currentHole |-> currentHole, lastHoleIndex |-> lastHoleIndex,
     intervals |-> intervals, hideTimeouts |-> hideTimeouts, up |-> up,
     startDisabled |-> startDisabled, pauseDisabled |-> pauseDisabled]

Becomes(g) ==
    /\ isPlaying' = g.isPlaying
    /\ isPaused' = g.isPaused
    /\ score' = g.score
    /\ timeLeft' = g.timeLeft
    /\ countdownIntervalId' = g.countdownIntervalId
    /\ currentHideTimeoutId' = g.currentHideTimeoutId
    /\ currentHole' = g.currentHole
    /\ lastHoleIndex' = g.lastHoleIndex
    /\ intervals' = g.intervals
    /\ hideTimeouts' = g.hideTimeouts
    /\ up' = g.up
    /\ startDisabled' = g.startDisabled
    /\ pauseDisabled' = g.pauseDisabled

\* the id setTimeout or setInterval returns: one that names no pending
\* timer and is held by neither variable
freshId(g) ==
    LET used == g.intervals \cup {t.id : t \in g.hideTimeouts}
                    \cup {g.countdownIntervalId, g.currentHideTimeoutId}
    IN  CHOOSE id \in 1..(Cardinality(used) + 1) :
            /\ id \notin used
            /\ \A other \in 1..(id - 1) : other \in used

\* clearTimeout(id): no effect when id names no pending timeout
clearTimeout(timeouts, id) == {t \in timeouts : t.id # id}

\* lines 50-60: the indices pickRandomHoleExcluding can return
pickable(excludedIndex) ==
    IF NumHoles > 1 THEN Holes \ {excludedIndex} ELSE Holes

\* lines 66-82 with index the hole picked at line 69; the timeout set at
\* line 76 keeps the hole it was set for
showMoleOnce(g, index) ==
    IF ~g.isPlaying \/ g.isPaused \/ g.timeLeft <= 0 \/ NumHoles = 0 THEN g
    ELSE LET id == freshId(g)
         IN  [g EXCEPT !.lastHoleIndex = index,
                       !.currentHole = index,
                       !.up = @ \cup {index},
                       !.hideTimeouts =
                           clearTimeout(@, g.currentHideTimeoutId)
                               \cup {[id |-> id, hole |-> index]},
                       !.currentHideTimeoutId = id]

\* lines 76-81: the callback of the timeout t
hideExpired(g, t, index) ==
    LET hidden == [g EXCEPT !.hideTimeouts = @ \ {t}, !.up = @ \ {t.hole}]
    IN  IF g.isPlaying /\ ~g.isPaused /\ g.timeLeft > 0
        THEN showMoleOnce(hidden, index)
        ELSE hidden

\* lines 84-96 for a pointerdown on the hole targetHole
onHolePointerDown(g, targetHole, index) ==
    IF ~g.isPlaying \/ g.isPaused THEN g
    ELSE IF targetHole \notin g.up THEN g
    ELSE LET hit == [g EXCEPT !.score = @ + 1, !.up = @ \ {targetHole}]
             cleared ==
                 IF g.currentHole = targetHole
                 THEN [hit EXCEPT !.hideTimeouts =
                                      clearTimeout(@, g.currentHideTimeoutId)]
                 ELSE hit
         IN  showMoleOnce(cleared, index)

startCountdownNoInterval(g) == g

\* lines 98-100 and 107: the interval is set; its callback is countdownTick
startCountdown(g) ==
    LET id == freshId(g)
    IN  [g EXCEPT !.intervals = (@ \ {g.countdownIntervalId}) \cup {id},
                  !.countdownIntervalId = id]

endGameKeepingTimers(g) ==
    [g EXCEPT !.isPlaying = FALSE, !.isPaused = FALSE, !.up = {},
              !.startDisabled = FALSE, !.pauseDisabled = TRUE]

\* lines 134-142
endGame(g) ==
    [g EXCEPT !.isPlaying = FALSE,
              !.isPaused = FALSE,
              !.intervals = @ \ {g.countdownIntervalId},
              !.hideTimeouts = clearTimeout(@, g.currentHideTimeoutId),
              !.up = {},
              !.startDisabled = FALSE,
              !.pauseDisabled = TRUE]

countdownTickWhilePaused(g) ==
    LET ticked == [g EXCEPT !.timeLeft = @ - 1]
    IN  IF ticked.timeLeft <= 0 THEN endGame(ticked) ELSE ticked

\* lines 100-107: the callback of the interval
countdownTick(g) ==
    IF g.isPaused THEN g
    ELSE LET ticked == [g EXCEPT !.timeLeft = @ - 1]
         IN  IF ticked.timeLeft <= 0 THEN endGame(ticked) ELSE ticked

\* lines 110-121
startGame(g, index) ==
    IF g.isPlaying THEN g
    ELSE startCountdown(
             showMoleOnce([g EXCEPT !.isPlaying = TRUE,
                                    !.isPaused = FALSE,
                                    !.score = 0,
                                    !.timeLeft = INITIAL_DURATION_SECONDS,
                                    !.startDisabled = TRUE,
                                    !.pauseDisabled = FALSE],
                          index))

\* lines 123-132
pauseGame(g, index) ==
    IF ~g.isPlaying THEN g
    ELSE IF ~g.isPaused THEN [g EXCEPT !.isPaused = TRUE]
    ELSE showMoleOnce([g EXCEPT !.isPaused = FALSE], index)

\* lines 144-151
resetGame(g) ==
    [endGame(g) EXCEPT !.score = 0, !.timeLeft = INITIAL_DURATION_SECONDS]

----------------------------------------------------------------------------
(***************************************************************************)
(* SpecGame: the events of the mini-game in any order.  The handlers test  *)
(* isPlaying themselves, so a click on a disabled button changes nothing   *)
(* either way.  SpecGameLive adds that the interval of the countdown keeps *)
(* firing: a game that is running again and again is ticked.               *)
(***************************************************************************)
InitGame ==
    /\ page = "unnamed"
    /\ GameIdle
    /\ DesignIdle /\ ShuffleIdle /\ SeededIdle /\ DobbleIdle /\ GeneratorIdle

gameRest == <<page, designVars, deckVars, shuffleVars, seededVars,
              dobbleVars, genVars>>

\* line 153
StartClick ==
    /\ \E index \in pickable(lastHoleIndex) : Becomes(startGame(Game, index))
    /\ UNCHANGED gameRest

\* line 154
PauseClick ==
    /\ \E index \in pickable(lastHoleIndex) : Becomes(pauseGame(Game, index))
    /\ UNCHANGED gameRest

\* line 155
ResetClick ==
    /\ Becomes(resetGame(Game))
    /\ UNCHANGED gameRest

\* line 157: a pointerdown on a hole; a scoring click needs score < MaxScore
HoleClick(targetHole) ==
    /\ score < MaxScore
    /\ \E index \in pickable(lastHoleIndex) :
           Becomes(onHolePointerDown(Game, targetHole, index))
    /\ UNCHANGED gameRest

\* a pending hide timeout fires
HideTimeout(t) ==
    /\ t \in hideTimeouts
    /\ \E index \in pickable(lastHoleIndex) :
           Becomes(hideExpired(Game, t, index))
    /\ UNCHANGED gameRest

\* a pending interval fires
CountdownTick ==
    /\ intervals # {}
    /\ Becomes(countdownTick(Game))
    /\ UNCHANGED gameRest

NextGame ==
    \/ StartClick
    \/ PauseClick
    \/ ResetClick
    \/ \E targetHole \in Holes : HoleClick(targetHole)
    \/ \E t \in hideTimeouts : HideTimeout(t)
    \/ CountdownTick

SpecGame == InitGame /\ [][NextGame]_vars

SpecGameLive == SpecGame /\ SF_vars(CountdownTick)

----------------------------------------------------------------------------
(***************************************************************************)
(* Properties of the generators (SpecDesign).                              *)
(***************************************************************************)
\* q is a prime: an integer >= 2 with no divisor in 2..q-1
PrimeOrder(q) == q >= 2 /\ \A d \in 2..(q - 1) : q % d # 0

Common(a, b) == Range(a) \cap Range(b)

\* every unordered pair of distinct cards has exactly one symbol in common
PairwiseOne(cards) ==
    \A i \in 1..Len(cards) : \A j \in (i + 1)..Len(cards) :
        Cardinality(Common(cards[i], cards[j])) = 1

\* every card holds exactly k pairwise distinct ids of 0..v-1
CardsWellFormed(cards, k, v) ==
    \A c \in 1..Len(cards) :
        /\ Len(cards[c]) = k
        /\ Cardinality(Range(cards[c])) = k
        /\ Range(cards[c]) \subseteq 0..(v - 1)

\* every symbol id of 0..v-1 is on exactly k cards
EverySymbolOnK(cards, k, v) ==
    \A s \in 0..(v - 1) :
        Cardinality({c \in 1..Len(cards) : s \in Range(cards[c])}) = k

DesignReturned == designRet.tag = "returned"
DeckReturnedForPrime == deckRet.tag = "returned" /\ PrimeOrder(deckArg)

\* C1: for every prime order of the range, every two distinct cards of the
\* design returned by generateDobbleDesignByPrime share exactly one symbol.
C1_DesignPairwiseOne ==
    DesignReturned => PairwiseOne(designRet.cards)

C1_Witness == DesignReturned /\ designArg = 5 /\ Len(designRet.cards) = 31

\* C2: for every prime order of the range, every two distinct cards of the
\* deck returned by generateDobbleDeckIndices share exactly one symbol, and
\* the self-check of the function reports no 'Intersection != 1'.
C2_DeckPairwiseOne ==
    DeckReturnedForPrime =>
        /\ PairwiseOne(deckRet.cards)
        /\ deckLog.intersections = {}

\* C3: for every prime order q both generators return a design with
\* q*q+q+1 symbols, q+1 symbols per card and q*q+q+1 cards.
C3_Counts ==
    /\ (designRet # Null /\ PrimeOrder(designArg)) =>
          /\ DesignReturned
          /\ designRet.v = designArg * designArg + designArg + 1
          /\ designRet.k = designArg + 1
          /\ Len(designRet.cards) = designRet.v
    /\ DeckReturnedForPrime =>
          /\ deckRet.symbolCount = deckArg * deckArg + deckArg + 1
          /\ deckRet.symbolsPerCard = deckArg + 1
          /\ Len(deckRet.cards) = deckRet.symbolCount

C3_Witness ==
    /\ DesignReturned /\ designArg = 2 /\ Len(designRet.cards) = 7
    /\ DeckReturnedForPrime /\ deckArg = 2 /\ Len(deckRet.cards) = 7

\* C4: every card of either generator holds exactly q+1 pairwise distinct
\* ids of 0..q*q+q, and the assertions after the construction never fire
\* for a prime order.
C4_CardsWellFormed ==
    /\ DesignReturned =>
          CardsWellFormed(designRet.cards, designArg + 1,
                          designArg * designArg + designArg + 1)
    /\ (designRet # Null /\ PrimeOrder(designArg)) => designRet.tag # "thrown"
    /\ DeckReturnedForPrime =>
          /\ CardsWellFormed(deckRet.cards, deckArg + 1,
                             deckArg * deckArg + deckArg + 1)
          /\ ~deckLog.sizeMismatch

C4_Witness ==
    /\ DesignReturned /\ designArg = 3
    /\ DeckReturnedForPrime /\ deckArg = 5

\* C5: in the design of either generator every symbol id of 0..q*q+q is on
\* exactly q+1 cards.
C5_EverySymbolOnK ==
    /\ DesignReturned =>
          EverySymbolOnK(designRet.cards, designArg + 1,
                         designArg * designArg + designArg + 1)
    /\ DeckReturnedForPrime =>
          EverySymbolOnK(deckRet.cards, deckArg + 1,
                         deckArg * deckArg + deckArg + 1)

C5_Witness ==
    /\ DesignReturned /\ designArg = 5
    /\ DeckReturnedForPrime /\ deckArg = 3

\* C6: generateDobbleDesignByPrime(q) fails, on its first assertion and so
\* before any card is built, if and only if q is not a prime >= 2; a failed
\* call returns no design.
C6_ThrowsIffNotPrime ==
    designRet # Null =>
        /\ (designRet.tag = "thrown") <=> ~PrimeOrder(designArg)
        /\ ~PrimeOrder(designArg) => designRet = Thrown("n must be prime")
        /\ PrimeOrder(designArg) => DesignReturned

C6_Witness == designRet = Thrown("n must be prime") /\ designArg = 4

----------------------------------------------------------------------------
(***************************************************************************)
(* Properties of shuffleInPlace (SpecShuffle, SpecSeeded).                 *)
(***************************************************************************)
Count(e, s) == Cardinality({p \in 1..Len(s) : s[p] = e})

ShuffleDone == returned # Null

\* C8: the result of shuffleInPlace is a permutation of its input: same
\* length and same multiset of elements, whatever the draws in [0, 1).
C8_Permutation ==
    ShuffleDone =>
        /\ Len(returned.value) = Len(passed.value)
        /\ \A e \in Elems :
              Count(e, returned.value) = Count(e, passed.value)

C8_Witness ==
    /\ ShuffleDone
    /\ Len(passed.value) = 3
    /\ returned # passed
    /\ Cardinality(Range(passed.value)) = 2

C10_NoSideEffect == ShuffleDone => arrayObj = passed.value

\* C10 amended: the shuffle permutes the sequence passed in, in place; the
\* returned sequence is that same sequence, so after the call the passed-in
\* sequence holds the returned permutation.
C10_InPlace == ShuffleDone => arrayObj = returned.value

C10_Witness ==
    ShuffleDone /\ arrayObj = returned.value /\ arrayObj # passed.value

----------------------------------------------------------------------------
(***************************************************************************)
(* Properties of the front-ends (SpecDobble, SpecGenerator).               *)
(***************************************************************************)
\* the number of cards is that of the deck of some prime order
PrimeDeckSize(count) ==
    \E p \in 2..count : PrimeOrder(p) /\ count = p * p + p + 1

\* in src/dobble-generator no generator call, no rendered card and no
\* stored result is for a non-prime order
GeneratorRejectsNonPrime ==
    /\ designRet # Null => PrimeOrder(designArg)
    /\ genLocals # Null => PrimeOrder(genLocals.value.design.n)
    /\ genPreview # <<>> => lastGenerated # Null
    /\ lastGenerated # Null => PrimeOrder(lastGenerated.value.design.n)

\* the same in src/dobble
DobbleRejectsNonPrime ==
    /\ deckRet # Null => PrimeOrder(deckArg)
    /\ previewGrid # <<>> => PrimeDeckSize(Len(previewGrid))
    /\ generated # Null => PrimeDeckSize(Len(generated.value.deckCanvases))

\* C7: in both front-ends a generate request for a non-prime order is
\* rejected before the deck generator runs: no deck is built, no card is
\* rendered and no generated result is stored for a non-prime order.
C7_NonPrimeRejected == GeneratorRejectsNonPrime /\ DobbleRejectsNonPrime

----------------------------------------------------------------------------
(***************************************************************************)
(* The two generators compared (SpecDesign).                               *)
(***************************************************************************)
\* both generators have returned for the same prime order
BothReturned ==
    DesignReturned /\ DeckReturnedForPrime /\ designArg = deckArg

\* C11: for every prime order the two generators return the same deck: the
\* same number of cards and, card by card, the same set of symbol ids, the
\* cards of the vertical lines x = a included.
C11_SameDeck ==
    BothReturned =>
        /\ Len(deckRet.cards) = Len(designRet.cards)
        /\ \A c \in 1..Len(designRet.cards) :
              Range(deckRet.cards[c]) = Range(designRet.cards[c])

----------------------------------------------------------------------------
(***************************************************************************)
(* The iterations of shuffleInPlace (SpecShuffle).                         *)
(***************************************************************************)
\* C12: shuffleInPlace on a sequence of length N visits the positions N-1
\* down to 1 in that order, makes one rng call per position (N-1 calls, none
\* for N <= 1) and swaps position i with a position j, 0 <= j <= i; for
\* N = 0 and N = 1 the sequence is returned unchanged.
C12_Visits ==
    ShuffleDone =>
        LET N == Len(passed.value)
        IN  /\ Len(visits) = IF N > 1 THEN N - 1 ELSE 0
            /\ \A k \in 1..Len(visits) :
                  /\ visits[k].i = N - k
                  /\ visits[k].call = k
                  /\ 0 <= visits[k].j /\ visits[k].j <= visits[k].i
            /\ N <= 1 => returned = passed /\ arrayObj = passed.value

\* a shuffle of three elements whose first draw swaps position 2 with itself
\* and whose second draw swaps position 1 with position 0
C12_Witness ==
    /\ ShuffleDone
    /\ Len(passed.value) = 3
    /\ Len(visits) = 2
    /\ visits[1].j = 2
    /\ visits[2].j = 0

----------------------------------------------------------------------------
(***************************************************************************)
(* The cards chosen for rendering (SpecGenerator).                         *)
(***************************************************************************)
\* the last stored run read an integer card count
CountTyped == lastGenerated # Null /\ countRead.value # Null

\* C13: for a design of V cards and an integer card count c the cards
\* chosen for rendering are exactly min(max(c, 1), V) cards of the design,
\* none chosen twice and none with its symbols altered, so every two of
\* them share exactly one symbol.
C13_ChosenCards ==
    CountTyped =>
        LET g == lastGenerated.value
            V == Len(g.design.cards)
            c == countRead.value.value
        IN  /\ Len(g.cards) = Min2(Max2(c, 1), V)
            /\ Len(g.cardCanvases) = Len(g.cards)
            /\ \A p \in 1..Len(g.cards) :
                  \E i \in 1..V : g.cards[p] = g.design.cards[i]
            /\ \A p \in 1..Len(g.cards) : \A r \in (p + 1)..Len(g.cards) :
                  g.cards[p] # g.cards[r]
            /\ PairwiseOne(g.cards)

\* 8 of the 13 cards of the order-3 design, not the first 8 in design order
C13_Witness ==
    /\ CountTyped
    /\ countRead.value.value = MaxCardsCount
    /\ Len(lastGenerated.value.design.cards) > MaxCardsCount
    /\ Len(lastGenerated.value.cards) = MaxCardsCount
    /\ lastGenerated.value.cards[1] # lastGenerated.value.design.cards[1]

----------------------------------------------------------------------------
(***************************************************************************)
(* The symbol assets at rendering (SpecFrontEnds).                         *)
(***************************************************************************)
\* src/dobble-generator: no run fails on a symbol id without a canvas, and
\* a stored run has one symbol canvas per symbol of its design, each symbol
\* of each card drawn from the canvas at its id
GeneratorAssets ==
    /\ genAlert # Some("draw failed")
    /\ lastGenerated # Null =>
          LET g == lastGenerated.value
              V == g.design.n * g.design.n + g.design.n + 1
          IN  /\ Len(g.symbolCanvases) = V
              /\ \A p \in 1..Len(g.cards) : \A k \in 1..Len(g.cards[p]) :
                    /\ g.cards[p][k] < V
                    /\ g.cardCanvases[p][k] =
                          g.symbolCanvases[g.cards[p][k] + 1]

\* src/dobble: a rendering that began had one symbol canvas per symbol of
\* the deck, each symbol of each card drawn from the canvas at its id
DobbleAssets ==
    (deckRet # Null /\ ~alerted) =>
        LET V == deckArg * deckArg + deckArg + 1
        IN  /\ deckSymbols # Null
            /\ generated # Null
            /\ Len(deckSymbols.value) = V
            /\ \A ci \in 1..Len(deckRet.cards) :
                \A k \in 1..Len(deckRet.cards[ci]) :
                    generated.value.deckCanvases[ci][k] =
                        deckSymbols.value[deckRet.cards[ci][k] + 1]

\* src/dobble: one generateDeck run (no other step touches what it writes)
\* either aborts (fewer assets than V and
\* auto-pad off) with no card rendered and state.generated kept, or renders
\* with the first V assets, padded to V
DeckRunAssets ==
    (page = "dobble" /\ <<deckVars, alerted, generated, previewGrid>>'
                           # <<deckVars, alerted, generated, previewGrid>>) =>
        LET V == stateQ * stateQ + stateQ + 1
        IN  IF assetCount < V /\ ~autoPad
            THEN alerted' /\ UNCHANGED <<generated, previewGrid, deckSymbols>>
            ELSE /\ ~alerted'
                 /\ deckSymbols' # Null
                 /\ Len(deckSymbols'.value) = V
                 /\ \A i \in 1..V :
                       deckSymbols'.value[i].kind =
                           IF i <= assetCount THEN "asset" ELSE "pad"
                 /\ Len(previewGrid') = V

\* C14: in both front-ends the rendering of cards starts only with exactly
\* V = q*q+q+1 symbol assets, so every symbol id of every card indexes its
\* own asset: buildSymbolAssets returns V assets for every source mode and
\* number of images or texts, and generateDeck pads to V, truncates to V or
\* aborts with no card rendered and state.generated kept.
C14_ExactlyVAssets ==
    [][GeneratorAssets' /\ DobbleAssets' /\ DeckRunAssets]_vars

\* src/dobble has rendered the 13 cards of order 3 from 8 assets and 5 pads
C14_Witness ==
    /\ page = "dobble"
    /\ deckRet # Null /\ ~alerted /\ deckArg = 3
    /\ deckSymbols # Null
    /\ deckSymbols.value[MaxAssets].kind = "asset"
    /\ deckSymbols.value[MaxAssets + 1].kind = "pad"
    /\ Len(generated.value.deckCanvases) = 13

----------------------------------------------------------------------------
(***************************************************************************)
(* Properties of the mini-game (SpecGame, SpecGameLive).                   *)
(***************************************************************************)
\* C15: after any interleaving of start, pause/resume, reset, hole clicks,
\* hide-timer expiries and countdown ticks at most one hole is 'up'.
C15_OneHoleUp == Cardinality(up) <= 1

\* C16: whenever the game is not playing no hole is 'up' and neither the
\* countdown interval nor a hide timeout is pending; while it is playing at
\* most one countdown interval and at most one hide timeout are pending.
C16_NothingPendingWhenStopped ==
    /\ ~isPlaying => up = {} /\ intervals = {} /\ hideTimeouts = {}
    /\ isPlaying => /\ Cardinality(intervals) <= 1
                    /\ Cardinality(hideTimeouts) <= 1

\* the countdown of a game reached 0 while a hole was up a step before
C16_Witness ==
    /\ ~isPlaying
    /\ timeLeft = 0
    /\ score = MaxScore
    /\ countdownIntervalId # 0
    /\ currentHideTimeoutId # 0

\* one step of the game: timeLeft stays in 0..30, the score of a running
\* game does not decrease, and a game that is and stays paused keeps its
\* timeLeft and its score and gets no new hole
GameStep ==
    /\ timeLeft' \in 0..INITIAL_DURATION_SECONDS
    /\ (isPlaying /\ isPlaying') => score' >= score
    /\ (isPaused /\ isPaused') =>
          /\ timeLeft' = timeLeft
          /\ score' = score
          /\ up' \subseteq up

\* C17: timeLeft always stays in [0, 30] and the score never decreases
\* during a game; while the game is paused countdown ticks leave timeLeft
\* unchanged, clicks on holes leave the score unchanged and no new hole is
\* raised.
C17_PausedFrozen == [][GameStep]_vars

\* a game paused in its course, after a hit, with a hole up
C17_Witness ==
    /\ isPlaying /\ isPaused
    /\ timeLeft < INITIAL_DURATION_SECONDS
    /\ score > 0
    /\ up # {}
    /\ intervals # {}

\* the game is over: not playing, start enabled, pause disabled, timeLeft at
\* 0 (or back at 30 after a reset)
GameOver ==
    /\ ~isPlaying
    /\ ~startDisabled
    /\ pauseDisabled
    /\ timeLeft \in {0, INITIAL_DURATION_SECONDS}

----------------------------------------------------------------------------
(***************************************************************************)
(* The buttons of src/dobble-generator (SpecGenerator).                    *)
(***************************************************************************)
\* a run of the click handler has ended and none is under way
RunEnded == genPc = "idle" /\ (lastGenerated # Null \/ genAlert # Null)

\* C19: the generate button is disabled for the whole of an asynchronous
\* run and enabled again after every run, ended in success, in the alert
\* for a non-prime order or in a throw; the print button is enabled after a
\* run if and only if that run succeeded, and then lastGenerated holds the
\* cards of that run.
C19_Buttons ==
    /\ genPc = "loading" => generateBtnDisabled /\ printBtnDisabled
    /\ genPc = "idle" => ~generateBtnDisabled
    /\ RunEnded =>
          /\ ~printBtnDisabled <=> genAlert = Null
          /\ ~printBtnDisabled =>
                /\ lastGenerated # Null
                /\ genPreview = lastGenerated.value.cardCanvases
          /\ printBtnDisabled => genPreview = <<>>

\* a run that failed to load its images after a run that had succeeded
C19_Witness ==
    /\ RunEnded
    /\ genAlert = Some("load failed")
    /\ lastGenerated # Null
    /\ printBtnDisabled
    /\ ~generateBtnDisabled

====
